---- MODULE Spec2Model ----
(***************************************************************************)
(* A model of package iban (src/iban/iban.go): the country table, the BBAN *)
(* layout matcher, the mod-97 check and the NewIBAN / Validate entry       *)
(* points.  A Go string is modelled as a sequence of one-character         *)
(* strings; an error is a record (nil flag, message, format arguments).    *)
(***************************************************************************)
EXTENDS Integers, Sequences, FiniteSets, TLC

VARIABLES
    input,   \* the string handed to NewIBAN
    pc,      \* "start", "parsed" (NewIBAN returned), "validated" (Validate returned)
    ret,     \* what NewIBAN returned: [ptr, err, steps]
    cand,    \* the *IBAN Validate / validateBban was called on (<<>>: none)
    verr     \* the error Validate / validateBban returned

vars == <<input, pc, ret, cand, verr>>

---------------------------------------------------------------------------
(* Characters *)

DigitSeq == <<"0","1","2","3","4","5","6","7","8","9">>

UpperSeq ==
    <<"A","B","C","D","E","F","G","H","I","J","K","L","M",
      "N","O","P","Q","R","S","T","U","V","W","X","Y","Z">>

LowerSeq ==
    <<"a","b","c","d","e","f","g","h","i","j","k","l","m",
      "n","o","p","q","r","s","t","u","v","w","x","y","z">>

Range(f) == { f[i] : i \in DOMAIN f }

Digit == Range(DigitSeq)

Upper == Range(UpperSeq)

Lower == Range(LowerSeq)

IndexIn(seq, c) == CHOOSE i \in DOMAIN seq : seq[i] = c

\* The code point of a character (int(c) of a rune); the model's characters
\* are the ASCII digits and letters, the space and the hyphen.
CodePoint(c) ==
    IF c \in Digit THEN 47 + IndexIn(DigitSeq, c)
    ELSE IF c \in Upper THEN 64 + IndexIn(UpperSeq, c)
    ELSE IF c \in Lower THEN 96 + IndexIn(LowerSeq, c)
    ELSE IF c = " " THEN 32
    ELSE 45

\* strings.ToUpper on one character
ToUpperChar(c) == IF c \in Lower THEN UpperSeq[IndexIn(LowerSeq, c)] ELSE c

\* strings.ToUpper
ToUpper(s) == [i \in DOMAIN s |-> ToUpperChar(s[i])]

\* strings.Replace(s, " ", "", -1)
RECURSIVE RemoveSpaces(_)
RemoveSpaces(s) ==
    IF s = <<>> THEN <<>>
    ELSE IF Head(s) = " " THEN RemoveSpaces(Tail(s))
    ELSE <<Head(s)>> \o RemoveSpaces(Tail(s))

\* s[from:] with a 0-based offset, as Go slices
SliceFrom(s, from) == SubSeq(s, from + 1, Len(s))

\* s[:to] with a 0-based end, as Go slices
SliceTo(s, to) == SubSeq(s, 1, to)

\* strconv.Itoa of a non-negative int
RECURSIVE Itoa(_)
Itoa(n) ==
    IF n < 10 THEN <<DigitSeq[n + 1]>>
    ELSE Itoa(n \div 10) \o <<DigitSeq[(n % 10) + 1]>>

\* strconv.Atoi of the two characters after a token's tag; the tokens come
\* from the pattern [ABCFLUW]\d{2}, so both are digits when that holds.
Atoi(ds) ==
    IF ds # <<>> /\ \A i \in DOMAIN ds : ds[i] \in Digit
    THEN [ok |-> TRUE,
          val |-> IF Len(ds) = 1 THEN IndexIn(DigitSeq, ds[1]) - 1
                  ELSE 10 * (IndexIn(DigitSeq, ds[1]) - 1) + (IndexIn(DigitSeq, ds[2]) - 1)]
    ELSE [ok |-> FALSE, val |-> 0]

---------------------------------------------------------------------------
(* Errors *)

NilError == [nil |-> TRUE, msg |-> "", args |-> <<>>]

\* errors.New / fmt.Errorf: a non-nil error, whatever the message
NewError(m) == [nil |-> FALSE, msg |-> m, args |-> <<>>]

Errorf(m, a) == [nil |-> FALSE, msg |-> m, args |-> a]

MsgInvalidCharacters == "IBAN can contain only alphanumeric characters"

MsgMalformedHeader ==
    "IBAN must start with country code (2 characters) and check digits (2 digits)"

MsgUnsupportedCountry == "Unsupported country code %v"

MsgLengthMismatch ==
    "IBAN length %d does not match length %d specified for country code %v"

MsgBbanMismatch ==
    "bban part of IBAN is not formatted according to country specification"

MsgChecksum == "IBAN has incorrect check digits"

MsgArithmetic == "IBAN check digits validation failed"

MsgBbanCompiler == "Failed to validate bban: %v"

---------------------------------------------------------------------------
(* The country table *)

countryRows == <<
    <<<<"A","D">>, 24, <<"F","0","4","F","0","4","A","1","2">>, FALSE>>,
    <<<<"A","E">>, 23, <<"F","0","3","F","1","6">>, FALSE>>,
    <<<<"A","L">>, 28, <<"F","0","8","A","1","6">>, FALSE>>,
    <<<<"A","T">>, 20, <<"F","0","5","F","1","1">>, TRUE>>,
    <<<<"A","Z">>, 28, <<"U","0","4","A","2","0">>, FALSE>>,
    <<<<"B","A">>, 20, <<"F","0","3","F","0","3","F","0","8","F","0","2">>, FALSE>>,
    <<<<"B","E">>, 16, <<"F","0","3","F","0","7","F","0","2">>, TRUE>>,
    <<<<"B","G">>, 22, <<"U","0","4","F","0","4","F","0","2","A","0","8">>, TRUE>>,
    <<<<"B","H">>, 22, <<"U","0","4","A","1","4">>, FALSE>>,
    <<<<"B","R">>, 29, <<"F","0","8","F","0","5","F","1","0","U","0","1","A","0","1">>, FALSE>>,
    <<<<"C","H">>, 21, <<"F","0","5","A","1","2">>, TRUE>>,
    <<<<"C","R">>, 21, <<"F","0","3","F","1","4">>, FALSE>>,
    <<<<"C","Y">>, 28, <<"F","0","3","F","0","5","A","1","6">>, FALSE>>,
    <<<<"C","Z">>, 24, <<"F","0","4","F","0","6","F","1","0">>, TRUE>>,
    <<<<"D","E">>, 22, <<"F","0","8","F","1","0">>, TRUE>>,
    <<<<"D","K">>, 18, <<"F","0","4","F","0","9","F","0","1">>, TRUE>>,
    <<<<"D","O">>, 28, <<"U","0","4","F","2","0">>, FALSE>>,
    <<<<"E","E">>, 20, <<"F","0","2","F","0","2","F","1","1","F","0","1">>, TRUE>>,
    <<<<"E","S">>, 24, <<"F","0","4","F","0","4","F","0","1","F","0","1","F","1","0">>, TRUE>>,
    <<<<"F","I">>, 18, <<"F","0","6","F","0","7","F","0","1">>, TRUE>>,
    <<<<"F","O">>, 18, <<"F","0","4","F","0","9","F","0","1">>, TRUE>>,
    <<<<"F","R">>, 27, <<"F","0","5","F","0","5","A","1","1","F","0","2">>, TRUE>>,
    <<<<"G","B">>, 22, <<"U","0","4","F","0","6","F","0","8">>, TRUE>>,
    <<<<"G","E">>, 22, <<"U","0","2","F","1","6">>, FALSE>>,
    <<<<"G","I">>, 23, <<"U","0","4","A","1","5">>, TRUE>>,
    <<<<"G","L">>, 18, <<"F","0","4","F","0","9","F","0","1">>, TRUE>>,
    <<<<"G","R">>, 27, <<"F","0","3","F","0","4","A","1","6">>, TRUE>>,
    <<<<"G","T">>, 28, <<"A","0","4","A","2","0">>, FALSE>>,
    <<<<"H","R">>, 21, <<"F","0","7","F","1","0">>, FALSE>>,
    <<<<"H","U">>, 28, <<"F","0","3","F","0","4","F","0","1","F","1","5","F","0","1">>, TRUE>>,
    <<<<"I","E">>, 22, <<"U","0","4","F","0","6","F","0","8">>, TRUE>>,
    <<<<"I","L">>, 23, <<"F","0","3","F","0","3","F","1","3">>, FALSE>>,
    <<<<"I","S">>, 26, <<"F","0","4","F","0","2","F","0","6","F","1","0">>, TRUE>>,
    <<<<"I","T">>, 27, <<"U","0","1","F","0","5","F","0","5","A","1","2">>, TRUE>>,
    <<<<"J","O">>, 30, <<"U","0","4","F","0","4","A","1","8">>, FALSE>>,
    <<<<"K","W">>, 30, <<"U","0","4","A","2","2">>, FALSE>>,
    <<<<"K","Z">>, 20, <<"F","0","3","A","1","3">>, FALSE>>,
    <<<<"L","B">>, 28, <<"F","0","4","A","2","0">>, FALSE>>,
    <<<<"L","C">>, 32, <<"U","0","4","A","2","4">>, FALSE>>,
    <<<<"L","I">>, 21, <<"F","0","5","A","1","2">>, TRUE>>,
    <<<<"L","T">>, 20, <<"F","0","5","F","1","1">>, TRUE>>,
    <<<<"L","U">>, 20, <<"F","0","3","A","1","3">>, TRUE>>,
    <<<<"L","V">>, 21, <<"U","0","4","A","1","3">>, TRUE>>,
    <<<<"M","C">>, 27, <<"F","0","5","F","0","5","A","1","1","F","0","2">>, TRUE>>,
    <<<<"M","D">>, 24, <<"A","2","0">>, FALSE>>,
    <<<<"M","E">>, 22, <<"F","0","3","F","1","3","F","0","2">>, FALSE>>,
    <<<<"M","K">>, 19, <<"F","0","3","A","1","0","F","0","2">>, FALSE>>,
    <<<<"M","R">>, 27, <<"F","0","5","F","0","5","F","1","1","F","0","2">>, FALSE>>,
    <<<<"M","T">>, 31, <<"U","0","4","F","0","5","A","1","8">>, TRUE>>,
    <<<<"M","U">>, 30, <<"U","0","4","F","0","2","F","0","2","F","1","2","F","0","3","U","0","3">>, FALSE>>,
    <<<<"N","L">>, 18, <<"U","0","4","F","1","0">>, TRUE>>,
    <<<<"N","O">>, 15, <<"F","0","4","F","0","6","F","0","1">>, TRUE>>,
    <<<<"P","K">>, 24, <<"U","0","4","A","1","6">>, FALSE>>,
    <<<<"P","L">>, 28, <<"F","0","8","F","1","6">>, TRUE>>,
    <<<<"P","S">>, 29, <<"U","0","4","A","2","1">>, FALSE>>,
    <<<<"P","T">>, 25, <<"F","0","4","F","0","4","F","1","1","F","0","2">>, TRUE>>,
    <<<<"Q","A">>, 29, <<"U","0","4","A","2","1">>, FALSE>>,
    <<<<"R","O">>, 24, <<"U","0","4","A","1","6">>, TRUE>>,
    <<<<"R","S">>, 22, <<"F","0","3","F","1","3","F","0","2">>, FALSE>>,
    <<<<"S","A">>, 24, <<"F","0","2","A","1","8">>, FALSE>>,
    <<<<"S","C">>, 31, <<"U","0","4","F","0","2","F","0","2","F","1","6","U","0","3">>, FALSE>>,
    <<<<"S","E">>, 24, <<"F","0","3","F","1","6","F","0","1">>, TRUE>>,
    <<<<"S","I">>, 19, <<"F","0","5","F","0","8","F","0","2">>, TRUE>>,
    <<<<"S","K">>, 24, <<"F","0","4","F","0","6","F","1","0">>, TRUE>>,
    <<<<"S","M">>, 27, <<"U","0","1","F","0","5","F","0","5","A","1","2">>, TRUE>>,
    <<<<"S","T">>, 25, <<"F","0","8","F","1","1","F","0","2">>, FALSE>>,
    <<<<"T","L">>, 23, <<"F","0","3","F","1","4","F","0","2">>, FALSE>>,
    <<<<"T","N">>, 24, <<"F","0","2","F","0","3","F","1","3","F","0","2">>, FALSE>>,
    <<<<"T","R">>, 26, <<"F","0","5","A","0","1","A","1","6">>, FALSE>>,
    <<<<"U","A">>, 29, <<"F","0","6","A","1","9">>, FALSE>>,
    <<<<"V","G">>, 24, <<"U","0","4","F","1","6">>, FALSE>>,
    <<<<"X","K">>, 20, <<"F","0","4","F","1","0","F","0","2">>, FALSE>>
>>

CountryCodes == { countryRows[i][1] : i \in DOMAIN countryRows }

RowOf(cc) == countryRows[CHOOSE i \in DOMAIN countryRows : countryRows[i][1] = cc]

\* A table with a data-entry slip: LC entered with MU's length.
countriesTypo ==
    [cc \in CountryCodes |->
        [Length |-> IF cc = <<"L","C">> THEN 30 ELSE RowOf(cc)[2],
         Format |-> RowOf(cc)[3],
         Sepa |-> RowOf(cc)[4]]]

countries ==
    [cc \in CountryCodes |->
        [Length |-> RowOf(cc)[2], Format |-> RowOf(cc)[3], Sepa |-> RowOf(cc)[4]]]

---------------------------------------------------------------------------
(* The IBAN struct *)

\* IBAN{}: every field at its zero value (countrySettings is a nil pointer,
\* modelled as the empty sequence; a set pointer is <<settings>>).
ZeroIBAN ==
    [code |-> <<>>, printCode |-> <<>>, countryCode |-> <<>>,
     checkDigits |-> <<>>, countrySettings |-> <<>>, bban |-> <<>>]

---------------------------------------------------------------------------
(* validateCheckDigits *)

\* A letter's numeric value, as computed by a slip of one (i -= 54).
LetterValueOffByOne(cp) == cp - 54

\* i -= 55: A = 10, B = 11, ..., Z = 35
LetterValue(cp) == cp - 55

\* The loop over the rearranged code building mods
RECURSIVE ExpandLetters(_)
ExpandLetters(s) ==
    IF s = <<>> THEN <<>>
    ELSE LET cp == CodePoint(Head(s))
         IN (IF cp > 64 /\ cp < 91 THEN Itoa(LetterValue(cp)) ELSE <<Head(s)>>)
            \o ExpandLetters(Tail(s))

\* new(big.Int).SetString(mods, 10): an optional sign, then one or more
\* decimal digits.  The value is kept as its digits: it has no fixed width.
SetString(mods) ==
    LET signed == mods # <<>> /\ Head(mods) \in {"+", "-"}
        digits == IF signed THEN Tail(mods) ELSE mods
    IN  IF digits # <<>> /\ \A i \in DOMAIN digits : digits[i] \in Digit
        THEN [success |-> TRUE, neg |-> signed /\ Head(mods) = "-", digits |-> digits]
        ELSE [success |-> FALSE, neg |-> FALSE, digits |-> <<>>]

\* The remainder of a decimal numeral by m, by long division
RECURSIVE DivRem(_, _, _)
DivRem(digits, m, acc) ==
    IF digits = <<>> THEN acc
    ELSE DivRem(Tail(digits), m, (acc * 10 + (IndexIn(DigitSeq, Head(digits)) - 1)) % m)

\* new(big.Int).Mod(bigVal, modVal): the Euclidean modulus, never negative
BigMod(bigVal, m) ==
    LET r == DivRem(bigVal.digits, m, 0)
    IN  IF bigVal.neg /\ r # 0 THEN m - r ELSE r

validateCheckDigits(i) ==
    LET iban == SliceFrom(i.code, 4) \o SliceTo(i.code, 4)
        mods == ExpandLetters(iban)
        bigVal == SetString(mods)
    IN  IF ~bigVal.success THEN NewError(MsgArithmetic)
        ELSE IF BigMod(bigVal, 97) # 1 THEN NewError(MsgChecksum)
        ELSE NilError

---------------------------------------------------------------------------
(* validateBban *)

\* The class tags of the pattern [ABCFLUW]\d{2}
TagChars == {"A", "B", "C", "F", "L", "U", "W"}

\* frx.FindAllString(format, -1): the leftmost matches of [ABCFLUW]\d{2},
\* none overlapping; what matches nowhere is skipped.
RECURSIVE FindAllString(_)
FindAllString(format) ==
    IF Len(format) < 3 THEN <<>>
    ELSE IF format[1] \in TagChars /\ format[2] \in Digit /\ format[3] \in Digit
         THEN <<SubSeq(format, 1, 3)>> \o FindAllString(SubSeq(format, 4, Len(format)))
         ELSE FindAllString(Tail(format))

\* The switch with "F" taken for any upper-case alphanumeric.
ClassOfLoose(tag) ==
    CASE tag = "F" -> Digit \cup Upper
      [] tag = "L" -> Lower
      [] tag = "U" -> Upper
      [] tag = "A" -> Digit \cup Upper \cup Lower
      [] tag = "B" -> Digit \cup Upper
      [] tag = "C" -> Upper \cup Lower
      [] tag = "W" -> Digit \cup Lower
      [] OTHER -> {}

\* switch ps[:1]: the bracket expression each tag adds to bbr
ClassOf(tag) ==
    CASE tag = "F" -> Digit
      [] tag = "L" -> Lower
      [] tag = "U" -> Upper
      [] tag = "A" -> Digit \cup Upper \cup Lower
      [] tag = "B" -> Digit \cup Upper
      [] tag = "C" -> Upper \cup Lower
      [] tag = "W" -> Digit \cup Lower
      [] OTHER -> {}

\* The loop over fps: bbr as the sequence of its pieces, class{repeat}; ok
\* is FALSE when Atoi fails.
RECURSIVE BuildRegex(_)
BuildRegex(fps) ==
    IF fps = <<>> THEN [ok |-> TRUE, bbr |-> <<>>]
    ELSE LET ps == Head(fps)
             repeat == Atoi(SliceFrom(ps, 1))
             rest == BuildRegex(Tail(fps))
         IN  IF ~repeat.ok \/ ~rest.ok THEN [ok |-> FALSE, bbr |-> <<>>]
             ELSE [ok |-> TRUE,
                   bbr |-> <<[class |-> ClassOf(ps[1]), repeat |-> repeat.val]>>
                           \o rest.bbr]

\* bbr unfolded: one class per character the expression consumes
RECURSIVE Unfold(_)
Unfold(bbr) ==
    IF bbr = <<>> THEN <<>>
    ELSE [k \in 1..Head(bbr).repeat |-> Head(bbr).class] \o Unfold(Tail(bbr))

\* Whether the expression matches s starting right after offset off
MatchesAt(classes, s, off) ==
    /\ off + Len(classes) <= Len(s)
    /\ \A k \in DOMAIN classes : s[off + k] \in classes[k]

\* bbrx.MatchString(bban): bbr has no ^ or $, so a match anywhere in bban
MatchString(bbr, s) ==
    LET classes == Unfold(bbr)
    IN  \E off \in 0..Len(s) : MatchesAt(classes, s, off)

validateBban(i) ==
    LET bban == i.bban
        format == i.countrySettings[1].Format
        fps == FindAllString(format)
        built == BuildRegex(fps)
    IN  IF ~built.ok THEN Errorf(MsgBbanCompiler, <<"strconv.Atoi">>)
        ELSE IF ~MatchString(built.bbr, bban) THEN NewError(MsgBbanMismatch)
        ELSE NilError

---------------------------------------------------------------------------
(* Validate, PrintCode *)

\* Validate stopping at the first failure.
ValidateShortCircuit(i) ==
    LET err1 == validateBban(i)
        err2 == validateCheckDigits(i)
    IN  IF ~err1.nil THEN NewError(err1.msg)
        ELSE IF ~err2.nil THEN NewError(err2.msg)
        ELSE NewError("")

\* err is the concatenation of the messages of the checks that failed;
\* errors.New(err) is returned whatever err is.
Validate(i) ==
    LET err1 == validateBban(i)
        err2 == validateCheckDigits(i)
        e0 == [msg |-> "", args |-> <<>>]
        e1 == IF ~err1.nil
              THEN [msg |-> e0.msg \o err1.msg, args |-> e0.args \o err1.args]
              ELSE e0
        e2 == IF ~err2.nil
              THEN [msg |-> e1.msg \o err2.msg, args |-> e1.args \o err2.args]
              ELSE e1
    IN  Errorf(e2.msg, e2.args)

PrintCode(i) == i.printCode

---------------------------------------------------------------------------
(* NewIBAN *)

\* Only the first space removed (strings.Replace with n = 1).
PrepareFirstSpace(s) ==
    LET sp == { i \in DOMAIN s : s[i] = " " }
        first == IF sp = {} THEN 0 ELSE CHOOSE i \in sp : \A j \in sp : i <= j
    IN  ToUpper(IF first = 0 THEN s
                ELSE SubSeq(s, 1, first - 1) \o SubSeq(s, first + 1, Len(s)))

\* strings.ToUpper(strings.Replace(s, " ", "", -1))
Prepare(s) == ToUpper(RemoveSpaces(s))

\* r.MatchString(s) for ^[0-9A-Z]*$
MatchAlnum(s) == \A i \in DOMAIN s : s[i] \in Digit \cup Upper

\* The header pattern without its two digits.
FindHeaderNoDigits(s) ==
    IF Len(s) >= 4 /\ s[1] \notin Digit /\ s[2] \notin Digit
    THEN SubSeq(s, 1, 4) ELSE <<>>

\* r.FindString(s) for ^\D\D\d\d: the first four characters, or ""
FindHeader(s) ==
    IF Len(s) >= 4 /\ s[1] \notin Digit /\ s[2] \notin Digit
       /\ s[3] \in Digit /\ s[4] \in Digit
    THEN SubSeq(s, 1, 4) ELSE <<>>

\* The grouping loop run while len(s) >= 4.
RECURSIVE PrintGroupsEager(_)
PrintGroupsEager(s) ==
    IF Len(s) >= 4 THEN SliceTo(s, 4) \o <<" ">> \o PrintGroupsEager(SliceFrom(s, 4))
    ELSE s

\* for len(s) > 4 { prc += s[:4] + " "; s = s[4:] }; prc + s
RECURSIVE PrintGroups(_)
PrintGroups(s) ==
    IF Len(s) > 4 THEN SliceTo(s, 4) \o <<" ">> \o PrintGroups(SliceFrom(s, 4))
    ELSE s

\* What NewIBAN returns: ptr is <<>> for nil or <<the IBAN>>, err the error;
\* steps lists the checks the call evaluated, in order.
Return(ptr, err, steps) == [ptr |-> ptr, err |-> err, steps |-> steps]

NewIBAN(raw) ==
    LET s == Prepare(raw)
        iban1 == [ZeroIBAN EXCEPT !.code = s]
        hs == FindHeader(s)
        iban2 == [iban1 EXCEPT !.countryCode = SliceTo(hs, 2),
                               !.checkDigits = SubSeq(hs, 3, 4)]
        ok == iban2.countryCode \in DOMAIN countries
        cs == countries[iban2.countryCode]
        iban3 == [iban2 EXCEPT !.countrySettings = <<cs>>]
        iban4 == [iban3 EXCEPT !.bban = SliceFrom(s, 4)]
        errBban == validateBban(iban4)
        errCheck == validateCheckDigits(iban4)
        iban5 == [iban4 EXCEPT !.printCode = PrintGroups(s)]
    IN  IF ~MatchAlnum(s)
        THEN Return(<<>>, NewError(MsgInvalidCharacters), <<"chars">>)
        ELSE IF hs = <<>>
        THEN Return(<<>>, NewError(MsgMalformedHeader), <<"chars", "header">>)
        ELSE IF ~ok
        THEN Return(<<>>, Errorf(MsgUnsupportedCountry, <<iban2.countryCode>>),
                    <<"chars", "header", "country">>)
        ELSE IF Len(s) # cs.Length
        THEN Return(<<>>,
                    Errorf(MsgLengthMismatch, <<Len(s), cs.Length, iban2.countryCode>>),
                    <<"chars", "header", "country", "length">>)
        ELSE IF ~errBban.nil
        THEN Return(<<>>, errBban, <<"chars", "header", "country", "length", "bban">>)
        ELSE IF ~errCheck.nil
        THEN Return(<<>>, errCheck,
                    <<"chars", "header", "country", "length", "bban", "checksum">>)
        ELSE Return(<<iban5>>, NilError,
                    <<"chars", "header", "country", "length", "bban", "checksum">>)

---------------------------------------------------------------------------
(* What the layouts and the mod-97 rule mean, stated without the code's    *)
(* regular expressions and big integers: the inputs are built from these   *)
(* and the properties below are stated with them.                          *)

\* Upper-case, space-free form of a string
RECURSIVE Normal(_)
Normal(s) ==
    IF s = <<>> THEN <<>>
    ELSE IF Head(s) = " " THEN Normal(Tail(s))
    ELSE IF Head(s) \in Lower
         THEN <<UpperSeq[IndexIn(LowerSeq, Head(s))]>> \o Normal(Tail(s))
         ELSE <<Head(s)>> \o Normal(Tail(s))

DigitVal(c) == IndexIn(DigitSeq, c) - 1

\* A layout is well formed when it is a run of tag-digit-digit tokens
WellFormed(format) ==
    /\ Len(format) % 3 = 0
    /\ \A i \in DOMAIN format :
          IF i % 3 = 1 THEN format[i] \in TagChars ELSE format[i] \in Digit

TokenCount(format) == Len(format) \div 3

TokenTag(format, k) == format[3 * k - 2]

TokenRepeat(format, k) == 10 * DigitVal(format[3 * k - 1]) + DigitVal(format[3 * k])

RECURSIVE RepeatSumTo(_, _)
RepeatSumTo(format, k) ==
    IF k = 0 THEN 0 ELSE RepeatSumTo(format, k - 1) + TokenRepeat(format, k)

RepeatSum(format) == RepeatSumTo(format, TokenCount(format))

\* The token covering position p (1-based) of a string laid out by format
CoveringToken(format, p) ==
    CHOOSE k \in 1..TokenCount(format) :
        RepeatSumTo(format, k - 1) < p /\ p <= RepeatSumTo(format, k)

TagClass(tag) ==
    IF tag = "F" THEN Digit
    ELSE IF tag = "L" THEN Lower
    ELSE IF tag = "U" THEN Upper
    ELSE IF tag = "A" THEN Digit \cup Upper \cup Lower
    ELSE IF tag = "B" THEN Digit \cup Upper
    ELSE IF tag = "C" THEN Upper \cup Lower
    ELSE Digit \cup Lower

\* s is exactly repeat characters of each token's class, in order
ExactlyLaidOut(format, s) ==
    /\ Len(s) = RepeatSum(format)
    /\ \A p \in DOMAIN s : s[p] \in TagClass(TokenTag(format, CoveringToken(format, p)))

\* The remainder modulo 97 of the numeral of s (letters A..Z as 10..35),
\* summed digit by digit from the right with the powers of ten modulo 97
RECURSIVE WeightedSum(_, _)
WeightedSum(s, w) ==
    IF s = <<>> THEN 0
    ELSE LET c == s[Len(s)]
             front == SubSeq(s, 1, Len(s) - 1)
         IN  IF c \in Digit
             THEN (DigitVal(c) * w + WeightedSum(front, (w * 10) % 97)) % 97
             ELSE IF c \in Upper
             THEN ((IndexIn(UpperSeq, c) + 9) * w + WeightedSum(front, (w * 100) % 97)) % 97
             ELSE WeightedSum(front, w)

\* The remainder of a code with its first four characters moved to the end
Remainder97(code) ==
    WeightedSum(SubSeq(code, 5, Len(code)) \o SubSeq(code, 1, 4), 1)

\* The six conditions a code has to meet, each stated on the normal form;
\* a later one is meaningful once the earlier ones hold
StepChars(s) == \A i \in DOMAIN s : s[i] \in Digit \cup Upper

StepHeader(s) ==
    /\ Len(s) >= 4
    /\ s[1] \notin Digit /\ s[2] \notin Digit
    /\ s[3] \in Digit /\ s[4] \in Digit

StepCountry(s) == SubSeq(s, 1, 2) \in CountryCodes

StepLength(s) == Len(s) = RowOf(SubSeq(s, 1, 2))[2]

StepBban(s) == ExactlyLaidOut(RowOf(SubSeq(s, 1, 2))[3], SubSeq(s, 5, Len(s)))

StepChecksum(s) == Remainder97(s) = 1

\* The first condition s fails, 7 when it meets all six
FirstFailing(s) ==
    IF ~StepChars(s) THEN 1
    ELSE IF ~StepHeader(s) THEN 2
    ELSE IF ~StepCountry(s) THEN 3
    ELSE IF ~StepLength(s) THEN 4
    ELSE IF ~StepBban(s) THEN 5
    ELSE IF ~StepChecksum(s) THEN 6
    ELSE 7

---------------------------------------------------------------------------
(* Inputs *)

\* How many filler patterns a country's account number is built from
NumFills == 1

\* How many pieces a layout descriptor handed to validateBban alone has
MaxTokens == 2

\* How long a candidate handed to validateBban alone is
MaxCandLen == 4

FillDigits == <<"1", "8", "0">>

FillUppers == <<"W", "B", "Z">>

FillAlnums == <<"K", "5", "A">>

\* A BBAN that fits the country's layout
BaseBban(cc, v) ==
    LET format == RowOf(cc)[3]
    IN  [p \in 1..RepeatSum(format) |->
            LET tag == TokenTag(format, CoveringToken(format, p))
            IN  IF tag = "F" THEN FillDigits[v]
                ELSE IF tag = "U" THEN FillUppers[v]
                ELSE FillAlnums[v]]

\* The check digits that make cc + digits + bban leave remainder 1
CheckDigitsFor(cc, bban) ==
    LET r == Remainder97(cc \o <<"0", "0">> \o Normal(bban))
        cd == 98 - r
    IN  <<DigitSeq[(cd \div 10) + 1], DigitSeq[(cd % 10) + 1]>>

Checked(cc, bban) == cc \o CheckDigitsFor(cc, bban) \o bban

EditChars == {"7", "Q", "q", "-"}

Replaced(s, p, c) == [s EXCEPT ![p] = c]

\* A BBAN and its neighbours: one character replaced, one dropped, one added
BbanVariants(b) ==
    {b, SubSeq(b, 1, Len(b) - 1), b \o <<"7">>, <<"7">> \o b, b \o <<"Q">>}
    \cup { Replaced(b, p, c) : p \in DOMAIN b, c \in EditChars }

\* Groups of four separated by spaces, as printed on paper
RECURSIVE Spaced(_)
Spaced(s) ==
    IF Len(s) <= 4 THEN s
    ELSE SubSeq(s, 1, 4) \o <<" ">> \o Spaced(SubSeq(s, 5, Len(s)))

LowerCased(s) ==
    [i \in DOMAIN s |->
        IF s[i] \in Upper THEN LowerSeq[IndexIn(UpperSeq, s[i])] ELSE s[i]]

InputsFor(cc, v) ==
    LET b == BaseBban(cc, v)
        base == Checked(cc, b)
    IN  \* the checksum right, the BBAN varied
        { Checked(cc, bv) : bv \in BbanVariants(b) }
        \* the check digits as for the base, the BBAN varied
        \cup { SubSeq(base, 1, 4) \o bv : bv \in BbanVariants(b) }
        \* the header varied
        \cup { Replaced(base, p, c) : p \in 1..4, c \in EditChars \cup {" ", "0"} }
        \* the base as a person would write it
        \cup { Spaced(base), LowerCased(base), LowerCased(Spaced(base)),
               <<" ">> \o base \o <<" ", " ">> }

\* Codes with a known verdict
VecGB == <<"G","B","8","2"," ","W","E","S","T"," ","1","2","3","4"," ","5","6","9","8"," ","7","6","5","4"," ","3","2">>

VecGBLower == <<"g","b","8","2"," ","w","e","s","t"," ","1","2","3","4"," ","5","6","9","8"," ","7","6","5","4"," ","3","2">>

VecGBJoined == <<"G","B","8","2","W","E","S","T","1","2","3","4","5","6","9","8","7","6","5","4","3","2">>

VecGBAltered == <<"G","B","8","2"," ","W","E","S","T"," ","1","2","3","4"," ","5","6","9","8"," ","7","6","5","4"," ","3","3">>

VecGBShort == <<"G","B","8","2","W","E","S","T","1","2","3","4","5","6","9","8","7","6","5","4","3">>

VecGBLetter == <<"G","B","8","2","W","E","5","T","1","2","3","4","5","6","9","8","7","6","5","4","3","2">>

VecDE == <<"D","E","8","9"," ","3","7","0","4"," ","0","0","4","4"," ","0","5","3","2"," ","0","1","3","0"," ","0","0">>

VecXX == <<"X","X","0","0"," ","0","0","0","0"," ","0","0","0","0">>

\* Strings no country's code is near
OtherInputs ==
    { <<>>, <<" ">>, <<"G">>, <<"G", "B">>, <<"G", "B", "8">>, <<"G", "B", "8", "2">>,
      <<"8", "2", "G", "B">>, <<"-", "-", "0", "0">>, <<"X", "X">>,
      <<"x","x","0","0">>, <<"G","B","8","2","W","E","S","T">> }

Inputs ==
    OtherInputs
    \cup {VecGB, VecGBLower, VecGBJoined, VecGBAltered, VecGBShort, VecGBLetter, VecDE, VecXX}
    \cup UNION { InputsFor(cc, v) : cc \in CountryCodes, v \in 1..NumFills }

\* An IBAN as NewIBAN has filled it in when it comes to its two checks
\* (code, header, settings and bban set), built without running them
Filled(raw) ==
    LET s == Normal(raw)
    IN  [ZeroIBAN EXCEPT !.code = s,
                         !.countryCode = SubSeq(s, 1, 2),
                         !.checkDigits = SubSeq(s, 3, 4),
                         !.countrySettings = <<countries[SubSeq(s, 1, 2)]>>,
                         !.bban = SubSeq(s, 5, Len(s))]

\* The inputs that reach the two checks: alphanumeric, a header, a country
\* of the table, the country's length
Fillable(raw) ==
    LET s == Normal(raw)
    IN  FirstFailing(s) >= 5

Candidates == { Filled(raw) : raw \in { r \in Inputs : Fillable(r) } }

\* Pieces of layout descriptors: tokens, and what is no token
Pieces ==
    { <<t, "0", d>> : t \in TagChars, d \in {"1", "2"} }
    \cup { <<"X", "0", "1">>, <<"F", "1">>, <<"F", "0", "x">> }

RECURSIVE Descriptors(_)
Descriptors(n) ==
    IF n = 0 THEN { <<>> }
    ELSE Descriptors(n - 1)
         \cup { d \o q : d \in Descriptors(n - 1), q \in Pieces }

RECURSIVE Strings(_, _)
Strings(alphabet, n) ==
    IF n = 0 THEN { <<>> }
    ELSE Strings(alphabet, n - 1)
         \cup { s \o <<c>> : s \in Strings(alphabet, n - 1), c \in alphabet }

\* An IBAN holding only what validateBban reads
BbanOnly(format, bban) ==
    [ZeroIBAN EXCEPT !.bban = bban,
                     !.countrySettings =
                         <<[Length |-> 0, Format |-> format, Sepa |-> FALSE]>>]

---------------------------------------------------------------------------
(* The calls *)

NoReturn == Return(<<>>, NilError, <<>>)

\* A caller hands a string to NewIBAN
Init ==
    /\ input \in Inputs
    /\ pc = "start"
    /\ ret = NoReturn
    /\ cand = <<>>
    /\ verr = NilError

CallNewIBAN ==
    /\ pc = "start"
    /\ ret' = NewIBAN(input)
    /\ cand' = ret'.ptr
    /\ pc' = "parsed"
    /\ UNCHANGED <<input, verr>>

\* Validate on an IBAN the caller holds
CallValidate ==
    /\ pc \in {"parsed", "held"}
    /\ cand # <<>>
    /\ verr' = Validate(cand[1])
    /\ pc' = "validated"
    /\ UNCHANGED <<input, ret, cand>>

Next == CallNewIBAN \/ CallValidate

Spec == Init /\ [][Next]_vars

\* Code of the package holds an IBAN it filled in itself and calls Validate
InitValidate ==
    /\ input = <<>>
    /\ pc = "held"
    /\ ret = NoReturn
    /\ cand \in { <<c>> : c \in Candidates }
    /\ verr = NilError

NextValidate == CallValidate

SpecValidate == InitValidate /\ [][NextValidate]_vars

\* validateBban alone, on a layout and a candidate
InitBban ==
    /\ input = <<>>
    /\ pc = "held"
    /\ ret = NoReturn
    /\ cand \in { <<BbanOnly(f, b)>> :
                    f \in Descriptors(MaxTokens) \ {<<>>},
                    b \in Strings({"1", "A", "a"}, MaxCandLen) }
    /\ verr = NilError

CallValidateBban ==
    /\ pc = "held"
    /\ verr' = validateBban(cand[1])
    /\ pc' = "matched"
    /\ UNCHANGED <<input, ret, cand>>

NextBban == CallValidateBban

SpecBban == InitBban /\ [][NextBban]_vars

---------------------------------------------------------------------------
(* Properties *)

Succeeded == ret.ptr # <<>> /\ ret.err.nil

StepMsgs ==
    <<MsgInvalidCharacters, MsgMalformedHeader, MsgUnsupportedCountry,
      MsgLengthMismatch, MsgBbanMismatch, MsgChecksum>>

AllSteps == <<"chars", "header", "country", "length", "bban", "checksum">>

\* C1: Validate returns no error on a value a successful NewIBAN returned
\* (both of its checks pass there).
C1_ValidateNilAfterParse ==
    (pc = "validated" /\ ret.ptr # <<>> /\ cand = ret.ptr) => verr.nil

\* C2: a code that meets the character, header, country, length and BBAN
\* conditions parses if and only if its rearranged, letter-expanded numeral
\* leaves remainder 1 modulo 97; otherwise NewIBAN fails with the check
\* digits error.
C2_ChecksumDecides ==
    (pc = "parsed" /\ FirstFailing(Normal(input)) >= 6) =>
        IF Remainder97(Normal(input)) = 1
        THEN Succeeded
        ELSE ret.ptr = <<>> /\ ret.err = NewError(MsgChecksum)

C2_Witness ==
    /\ pc = "parsed"
    /\ input = VecGB
    /\ Remainder97(Normal(input)) = 1
    /\ Succeeded

\* C3: NewIBAN reports the first condition that fails, in the order
\* characters, header, country, length, BBAN, checksum; it evaluates no
\* check after the failing one; the six messages are pairwise distinct.
C3_FirstFailureReported ==
    /\ Cardinality(Range(StepMsgs)) = 6
    /\ pc = "parsed" =>
          LET k == FirstFailing(Normal(input))
          IN  IF k = 7
              THEN Succeeded /\ ret.steps = AllSteps
              ELSE /\ ret.ptr = <<>>
                   /\ ~ret.err.nil
                   /\ ret.err.msg = StepMsgs[k]
                   /\ ret.steps = SubSeq(AllSteps, 1, k)

C3_Witness ==
    /\ pc = "parsed"
    /\ input = VecXX
    /\ ret.ptr = <<>>
    /\ ret.err = Errorf(MsgUnsupportedCountry, <<(<<"X", "X">>)>>)
    /\ ret.steps = <<"chars", "header", "country">>

\* C4: the matcher built from a well-formed layout accepts a candidate if
\* and only if the candidate is exactly the layout's characters: nothing
\* before, nothing after, nothing missing.
C4_MatcherExact ==
    (pc = "matched" /\ WellFormed(cand[1].countrySettings[1].Format)) =>
        (verr.nil <=> ExactlyLaidOut(cand[1].countrySettings[1].Format, cand[1].bban))

\* C5: a layout with an unknown tag or a malformed repeat count makes
\* validateBban fail with its compiler error, not match or mismatch.
C5_MalformedLayoutRejected ==
    (pc = "matched" /\ ~WellFormed(cand[1].countrySettings[1].Format)) =>
        (~verr.nil /\ verr.msg = MsgBbanCompiler)

\* C6: NewIBAN returns for an input what it returns for the input's normal
\* form (so two inputs with one normal form fare alike), and parsing the
\* code of a returned IBAN returns that IBAN again.
C6_NormalFormDecides ==
    pc = "parsed" =>
        /\ ret = NewIBAN(Normal(input))
        /\ ret.ptr # <<>> =>
              /\ ret.ptr[1].code = Normal(input)
              /\ NewIBAN(ret.ptr[1].code) = ret

C6_Witness ==
    /\ pc = "parsed"
    /\ input = VecGBLower
    /\ Succeeded
    /\ ret.ptr[1].code = VecGBJoined

\* C7: the print code of a returned IBAN is its code with one space after
\* every fourth character but the last: no space first or last, and the
\* code again once the spaces are removed.
C7_PrintCodeGroups ==
    (pc = "parsed" /\ ret.ptr # <<>>) =>
        LET p == PrintCode(ret.ptr[1])
            c == ret.ptr[1].code
        IN  /\ Len(p) = Len(c) + ((Len(c) - 1) \div 4)
            /\ \A i \in DOMAIN p : (p[i] = " ") <=> (i % 5 = 0)
            /\ p[1] # " " /\ p[Len(p)] # " "
            /\ SelectSeq(p, LAMBDA ch : ch # " ") = c

C7_Witness ==
    /\ pc = "parsed"
    /\ Succeeded
    /\ Len(ret.ptr[1].code) = 16
    /\ Len(PrintCode(ret.ptr[1])) = 19

\* C8: every entry of the country table has a well-formed layout whose
\* repeat counts add up to the entry's length minus 4 (and the settings an
\* IBAN points to are an entry of the table).
C8_TableConsistent ==
    /\ \A cc \in DOMAIN countries :
          /\ WellFormed(countries[cc].Format)
          /\ RepeatSum(countries[cc].Format) = countries[cc].Length - 4
    /\ \A i \in DOMAIN cand :
          cand[i].countrySettings[1] \in Range(countries)

C8_Witness ==
    /\ pc = "parsed"
    /\ Succeeded
    /\ ret.ptr[1].countryCode = <<"L", "C">>
    /\ ret.ptr[1].countrySettings[1].Length = 32
    /\ Len(ret.ptr[1].bban) = RepeatSum(ret.ptr[1].countrySettings[1].Format)

\* C9: Validate runs both checks whatever the other's result: its message
\* is the BBAN message if the BBAN check fails followed by the check digits
\* message if the checksum fails.
C9_ValidateReportsBoth ==
    pc = "validated" =>
        LET i == cand[1]
            bbanFails == ~ExactlyLaidOut(RowOf(i.countryCode)[3], i.bban)
            sumFails == Remainder97(i.code) # 1
        IN  verr.msg = (IF bbanFails THEN MsgBbanMismatch ELSE "")
                       \o (IF sumFails THEN MsgChecksum ELSE "")

C9_Witness ==
    /\ pc = "validated"
    /\ ~ExactlyLaidOut(RowOf(cand[1].countryCode)[3], cand[1].bban)
    /\ Remainder97(cand[1].code) # 1
    /\ verr.msg = MsgBbanMismatch \o MsgChecksum

\* C10: the bban of a returned IBAN is its code without the first four
\* characters, is the country's length minus 4 long, and has at every
\* position a character of the class of the layout token covering it.
C10_BbanFullyChecked ==
    (pc = "parsed" /\ ret.ptr # <<>>) =>
        LET i == ret.ptr[1]
            row == RowOf(i.countryCode)
        IN  /\ i.bban = SubSeq(i.code, 5, Len(i.code))
            /\ Len(i.bban) = row[2] - 4
            /\ \A p \in DOMAIN i.bban :
                  i.bban[p] \in TagClass(TokenTag(row[3], CoveringToken(row[3], p)))

C10_Witness ==
    /\ pc = "parsed"
    /\ Succeeded
    /\ ret.ptr[1].countryCode = <<"M", "U">>
    /\ Len(ret.ptr[1].bban) = 26
    /\ ret.ptr[1].bban[26] \in Upper

====
